---- MODULE Spec2Model ----
(***************************************************************************)
(* Model of tactics/selfatari.c of Pachi: the bad-self-atari classifier    *)
(* is_bad_selfatari_slow() with its four analyzers, and selfatari_cousin().*)
(* The board (struct board) is read-only input; its group bookkeeping      *)
(* (group ids, liberty lists) is derived from the stones in Init.          *)
(***************************************************************************)
EXTENDS Integers, Sequences, FiniteSets

VARIABLES b, color, to, s, pc, d, ran, verdict, assert_ok, cousin

vars == <<b, color, to, s, pc, d, ran, verdict, assert_ok, cousin>>

(***************************************************************************)
(* Bounds of the explored inputs.                                          *)
(***************************************************************************)
\* Largest number of stones on an exhaustively enumerated board.
MaxStones == 5

\* Largest number of stones added to HealthyFriendPosition.
MaxExtra == 2

\* Playable side lengths of the exhaustively enumerated (square) boards.
BoardSizes == {2, 3}

(***************************************************************************)
(* enum stone, coordinates, and the board queries of board.h               *)
(***************************************************************************)
S_NONE == "S_NONE"
S_BLACK == "S_BLACK"
S_WHITE == "S_WHITE"
S_OFFBOARD == "S_OFFBOARD"

Stones == {S_NONE, S_BLACK, S_WHITE, S_OFFBOARD}

\* The "no move" coordinate returned by selfatari_cousin().
pass == -1

stone_other(c) ==
    IF c = S_BLACK THEN S_WHITE ELSE IF c = S_WHITE THEN S_BLACK ELSE c

\* A board of playable side n is stored with a one-point off-board border:
\* board_size = n + 2 and coord = x + y * board_size.
coord_xy(x, y, size) == x + y * size

Coords(size) == 0 .. (size * size - 1)

InsideCoords(size) ==
    {c \in Coords(size) : (c % size) \in 1 .. (size - 2)
                          /\ (c \div size) \in 1 .. (size - 2)}

NeighborSet(c, size) == {c - size, c - 1, c + 1, c + size}

DiagNeighborSet(c, size) == {c - size - 1, c - size + 1, c + size - 1, c + size + 1}

SetMin(S) == CHOOSE m \in S : \A x \in S : m <= x

SetMax(S) == CHOOSE m \in S : \A x \in S : m >= x

RECURSIVE SortedSeq(_, _)
SortedSeq(S, asc) ==
    IF S = {} THEN <<>>
    ELSE LET m == IF asc THEN SetMin(S) ELSE SetMax(S)
         IN <<m>> \o SortedSeq(S \ {m}, asc)

\* The stones of a position: playable side n, black and white as coordinates.
StoneAt(p, c) ==
    IF c \notin InsideCoords(p.n + 2) THEN S_OFFBOARD
    ELSE IF c \in p.black THEN S_BLACK
    ELSE IF c \in p.white THEN S_WHITE
    ELSE S_NONE

\* The maximal connected same-colour set of stones containing the set S.
RECURSIVE Chain(_, _, _)
Chain(at, size, S) ==
    LET col == at[SetMin(S)]
        S2 == S \cup {n \in UNION {NeighborSet(c, size) : c \in S} : at[n] = col}
    IN IF S2 = S THEN S ELSE Chain(at, size, S2)

ChainLibs(at, size, S) ==
    {n \in UNION {NeighborSet(c, size) : c \in S} : at[n] = S_NONE}

\* struct board for position p: b.b is the colour of each point, b.g the group
\* id of each point (0 where there is no stone), b.gi the liberty record of each
\* group; the order of a liberty list depends on the game's history, so both
\* relative orders of any two liberties are admitted (asc).
MakeBoard(p, asc) ==
    LET size == p.n + 2
        at == [c \in Coords(size) |-> StoneAt(p, c)]
        chain == [c \in p.black \cup p.white |-> Chain(at, size, {c})]
        g == [c \in Coords(size) |->
                 IF c \in DOMAIN chain THEN SetMin(chain[c]) ELSE 0]
        ids == {g[c] : c \in DOMAIN chain}
    IN [size |-> size,
        b |-> at,
        g |-> g,
        gi |-> [id \in ids |->
                   LET L == SortedSeq(ChainLibs(at, size, chain[id]), asc)
                   IN [libs |-> Len(L), lib |-> L]],
        stones |-> [id \in ids |-> Cardinality(chain[id])]]

board_size == b.size

board_at(c) == b.b[c]

group_at(c) == b.g[c]

board_group_info(g) == b.gi[g]

group_is_onestone(g) == b.stones[g] = 1

\* lib[] of a group, 0-based as in the source.
group_lib(g, i) == board_group_info(g).lib[i + 1]

board_group_other_lib(g, l) ==
    IF group_lib(g, 0) # l THEN group_lib(g, 0) ELSE group_lib(g, 1)

neighbor_count_at(c, col) ==
    Cardinality({n \in NeighborSet(c, board_size) : board_at(n) = col})

immediate_liberty_count(c) == neighbor_count_at(c, S_NONE)

Abs(x) == IF x < 0 THEN -x ELSE x

coord_is_adjecent(c1, c2) == Abs(c1 - c2) = 1 \/ Abs(c1 - c2) = board_size

board_is_eyelike(c, eye_color) ==
    neighbor_count_at(c, eye_color) + neighbor_count_at(c, S_OFFBOARD) = 4

board_is_false_eyelike(c, eye_color) ==
    LET diag(col) == Cardinality({n \in DiagNeighborSet(c, board_size) :
                                     board_at(n) = col})
    IN diag(stone_other(eye_color))
       + (IF diag(S_OFFBOARD) > 0 THEN 1 ELSE 0) >= 2

board_is_one_point_eye(c, eye_color) ==
    board_is_eyelike(c, eye_color) /\ ~board_is_false_eyelike(c, eye_color)

\* foreach_neighbor visits the four neighbours in this order; ord is a
\* permutation of 1..4 applied to it (<<1, 2, 3, 4>> is the order of the code).
foreach_neighbor(c, ord) ==
    LET base == <<c - board_size, c - 1, c + 1, c + board_size>>
    IN [i \in 1 .. 4 |-> base[ord[i]]]

CodeOrder == <<1, 2, 3, 4>>

\* The 24 orders in which four neighbours can be visited.
Perms ==
    {<<1, 2, 3, 4>>, <<1, 2, 4, 3>>, <<1, 3, 2, 4>>, <<1, 3, 4, 2>>,
     <<1, 4, 2, 3>>, <<1, 4, 3, 2>>, <<2, 1, 3, 4>>, <<2, 1, 4, 3>>,
     <<2, 3, 1, 4>>, <<2, 3, 4, 1>>, <<2, 4, 1, 3>>, <<2, 4, 3, 1>>,
     <<3, 1, 2, 4>>, <<3, 1, 4, 2>>, <<3, 2, 1, 4>>, <<3, 2, 4, 1>>,
     <<3, 4, 1, 2>>, <<3, 4, 2, 1>>, <<4, 1, 2, 3>>, <<4, 1, 3, 2>>,
     <<4, 2, 1, 3>>, <<4, 2, 3, 1>>, <<4, 3, 1, 2>>, <<4, 3, 2, 1>>}

(***************************************************************************)
(* struct selfatari_state and the neighbour group collector                *)
(***************************************************************************)
groupcts(st, col) == Len(st.groupids[col])

libs_of(g) == board_group_info(g).libs

\* memset(&s, 0, sizeof(s))
EmptyState ==
    [groupids |-> [col \in Stones |-> <<>>],
     friend_has_no_libs |-> FALSE,
     needs_more_lib |-> 0,
     needs_more_lib_except |-> 0]

\* The foreach_neighbor loop of is_bad_selfatari_slow: each neighbour's group id
\* is appended to the bucket of the neighbour's colour unless already there.
RECURSIVE collect_from(_, _, _)
collect_from(nbs, i, st) ==
    IF i > Len(nbs) THEN st
    ELSE LET c == nbs[i]
             col == board_at(c)
             group == group_at(c)
             dup == \E k \in 1 .. groupcts(st, col) : st.groupids[col][k] = group
         IN collect_from(nbs, i + 1,
                IF dup THEN st
                ELSE [st EXCEPT !.groupids[col] = Append(@, group)])

collect_groups(t, ord) == collect_from(foreach_neighbor(t, ord), 1, EmptyState)

(***************************************************************************)
(* three_liberty_suicide                                                   *)
(***************************************************************************)
BoolInt(p) == IF p THEN 1 ELSE 0

\* The two liberties of g other than the candidate, in liberty-list order.
other_libs_of(g, t) ==
    LET NotTo(l) == l # t
    IN SelectSeq(SubSeq(board_group_info(g).lib, 1, 3), NotTo)

\* Can the group run out at liberty l: a neighbouring friendly group other
\* than g that is not in atari.
can_connect_at(l, g, col) ==
    \E c \in NeighborSet(l, board_size) :
        /\ board_at(c) = col
        /\ group_at(c) # g
        /\ libs_of(group_at(c)) > 1

\* The final loop over the two other liberties (i = 0, 1).
RECURSIVE three_liberty_loop(_, _, _, _, _)
three_liberty_loop(g, col, t, other_libs, i) ==
    IF i >= 2 THEN FALSE
    ELSE LET other_libs_neighbors == coord_is_adjecent(other_libs[1], other_libs[2])
             null_libs == BoolInt(other_libs_neighbors)
                          + BoolInt(coord_is_adjecent(other_libs[i + 1], t))
         IN IF board_is_one_point_eye(other_libs[(1 - i) + 1], col) THEN FALSE
            ELSE IF immediate_liberty_count(other_libs[i + 1]) - null_libs > 1
                 THEN three_liberty_loop(g, col, t, other_libs, i + 1)
            ELSE IF can_connect_at(other_libs[i + 1], g, col)
                 THEN three_liberty_loop(g, col, t, other_libs, i + 1)
            ELSE TRUE

\* Variant of connects_to_other_group that asks for a third friendly group.
connects_to_other_group_mut(st, col) == groupcts(st, col) > 2

\* Line 60: the move connects the group to a different friendly group.
connects_to_other_group(st, col) == groupcts(st, col) > 1

three_liberty_suicide(g, col, t, st) ==
    LET other_libs == other_libs_of(g, t)
        other_libs_adj == [j \in 1 .. 2 |-> coord_is_adjecent(other_libs[j], t)]
    IN IF immediate_liberty_count(t)
          - BoolInt(other_libs_adj[1] \/ other_libs_adj[2]) > 0 THEN FALSE
       ELSE IF connects_to_other_group(st, col) THEN FALSE
       ELSE IF \E i \in 1 .. groupcts(st, stone_other(col)) :
                   libs_of(st.groupids[stone_other(col)][i]) <= 2 THEN FALSE
       ELSE three_liberty_loop(g, col, t, other_libs, 0)

(***************************************************************************)
(* examine_friendly_groups: results are 1 (bad), 0 (not bad), -1           *)
(***************************************************************************)
\* Variant of friend_has_spare_libs with the threshold off by one.
friend_has_spare_libs_mut(g) == libs_of(g) > 3

\* Line 136: a group with more than two liberties ends the scan.
friend_has_spare_libs(g) == libs_of(g) > 2

\* Line 137: only a group with exactly three liberties is checked further.
friend_needs_three_lib_check(g) == libs_of(g) = 3

\* Variant of other_group_provides_lib with the last comparison inverted.
other_group_provides_lib_mut(st, g, lib2) ==
    /\ st.needs_more_lib # 0
    /\ st.needs_more_lib # g
    /\ st.needs_more_lib_except = lib2

\* Lines 149-150: another group already provides a different liberty.
other_group_provides_lib(st, g, lib2) ==
    /\ st.needs_more_lib # 0
    /\ st.needs_more_lib # g
    /\ st.needs_more_lib_except # lib2

\* The scan of friendly groups i .. n-1 (0-based) from state st.
RECURSIVE friendly_loop(_, _, _, _, _)
friendly_loop(col, t, st, i, n) ==
    IF i >= n THEN [d |-> -1, s |-> st]
    ELSE LET g == st.groupids[col][i + 1]
         IN IF libs_of(g) = 1
            THEN friendly_loop(col, t,
                     IF st.needs_more_lib = 0
                     THEN [st EXCEPT !.friend_has_no_libs = TRUE] ELSE st,
                     i + 1, n)
            ELSE IF friend_has_spare_libs(g)
            THEN [d |-> BoolInt(friend_needs_three_lib_check(g)
                                /\ three_liberty_suicide(g, col, t, st)),
                  s |-> st]
            ELSE LET lib2 == board_group_other_lib(g, t)
                 IN IF other_group_provides_lib(st, g, lib2)
                    THEN [d |-> 0, s |-> st]
                    ELSE IF groupcts(st, S_NONE) > 1 THEN [d |-> 0, s |-> st]
                    ELSE IF groupcts(st, S_NONE) > 0 /\ ~coord_is_adjecent(lib2, t)
                    THEN [d |-> 0, s |-> st]
                    ELSE friendly_loop(col, t,
                             [st EXCEPT !.needs_more_lib = g,
                                        !.needs_more_lib_except = lib2,
                                        !.friend_has_no_libs = FALSE],
                             i + 1, n)

examine_friendly_groups(col, t, st) ==
    friendly_loop(col, t, st, 0, groupcts(st, col))

(***************************************************************************)
(* examine_enemy_groups                                                    *)
(***************************************************************************)
\* Line 192: g is a single stone in ko shape.
is_ko_stone(g, col) ==
    neighbor_count_at(g, col) + neighbor_count_at(g, S_OFFBOARD) = 3

\* Variant of ko_capture_allowed with the test of friend_has_no_libs inverted.
ko_capture_allowed_mut(g, col, st) == is_ko_stone(g, col) /\ st.friend_has_no_libs

\* Lines 192-197: taking a ko stone with no group to save is fine.
ko_capture_allowed(g, col, st) == is_ko_stone(g, col) /\ ~st.friend_has_no_libs

\* Variant of is_simple_suicide with the test of needs_more_lib inverted.
is_simple_suicide_mut(st, can_capture) ==
    st.needs_more_lib # 0 /\ can_capture = 0 /\ groupcts(st, S_NONE) = 0

\* Line 209: nothing provides a liberty: the move is a plain suicide.
is_simple_suicide(st, can_capture) ==
    st.needs_more_lib = 0 /\ can_capture = 0 /\ groupcts(st, S_NONE) = 0

\* The scan of enemy groups i .. from state st; can_capture is the capture
\* candidate found so far. scanned tells that the loop ran to its end.
RECURSIVE enemy_loop(_, _, _, _, _)
enemy_loop(col, t, st, i, can_capture) ==
    IF i >= groupcts(st, stone_other(col))
    THEN [d |-> IF is_simple_suicide(st, can_capture) THEN 1 ELSE -1,
          scanned |-> TRUE, can_capture |-> can_capture]
    ELSE LET g == st.groupids[stone_other(col)][i + 1]
             stop == [d |-> 0, scanned |-> FALSE, can_capture |-> can_capture]
         IN IF libs_of(g) > 1 THEN enemy_loop(col, t, st, i + 1, can_capture)
            ELSE IF groupcts(st, S_NONE) > 0 \/ ~group_is_onestone(g) THEN stop
            ELSE IF ko_capture_allowed(g, col, st) THEN stop
            ELSE IF st.needs_more_lib # 0 \/ (can_capture # 0 /\ can_capture # g)
                 THEN stop
            ELSE enemy_loop(col, t, st, i + 1, g)

examine_enemy_groups(col, t, st) == enemy_loop(col, t, st, 0, 0).d

(***************************************************************************)
(* setup_nakade_or_snapback                                                *)
(***************************************************************************)
\* Lines 250-301: every neighbour of lib2 is off-board, the candidate, a
\* friendly 2-liberty group, or an enemy group that is g, is in atari, or has
\* two liberties one of which is the candidate.
lib2_is_internal(g, lib2, col, t) ==
    \A c \in NeighborSet(lib2, board_size) :
        \/ board_at(c) = S_OFFBOARD
        \/ board_at(c) = S_NONE /\ c = t
        \/ board_at(c) = col /\ libs_of(group_at(c)) = 2
        \/ /\ board_at(c) = stone_other(col)
           /\ \/ group_at(c) = g
              \/ libs_of(group_at(c)) = 1
              \/ /\ libs_of(group_at(c)) = 2
                 /\ (group_lib(group_at(c), 0) = t \/ group_lib(group_at(c), 1) = t)

\* Outcomes of the body of the loop for one enemy group.
NAKADE_OK == "return false"
NEXT_GROUP == "goto next_group"
ASSERT_FAILED == "assertion failed"

\* Lines 328-338: every friendly 2-liberty group has lib2 among its liberties.
RECURSIVE nakade_friends_loop(_, _, _, _, _)
nakade_friends_loop(col, t, st, lib2, j) ==
    IF j >= groupcts(st, col) THEN NAKADE_OK
    ELSE LET g2 == st.groupids[col][j + 1]
         IN IF ~(libs_of(g2) <= 2) THEN ASSERT_FAILED
            ELSE IF libs_of(g2) = 2
            THEN IF group_lib(g2, 0) # lib2 /\ group_lib(g2, 1) # lib2
                 THEN NEXT_GROUP
                 ELSE nakade_friends_loop(col, t, st, lib2, j + 1)
            ELSE IF group_lib(g2, 0) # t THEN ASSERT_FAILED
            ELSE nakade_friends_loop(col, t, st, lib2, j + 1)

\* Lines 239-340: the body of the loop for the enemy group g.
nakade_group(g, col, t, st) ==
    IF libs_of(g) # 2 THEN NEXT_GROUP
    ELSE LET lib2 == board_group_other_lib(g, t)
         IN IF ~lib2_is_internal(g, lib2, col, t) THEN NEXT_GROUP
            ELSE IF groupcts(st, col) < 1 THEN NAKADE_OK
            ELSE IF groupcts(st, col) = 1 /\ group_is_onestone(st.groupids[col][1])
            THEN LET g2 == st.groupids[col][1]
                 IN IF ~(libs_of(g2) <= 2) THEN ASSERT_FAILED
                    ELSE IF libs_of(g2) = 1 THEN NAKADE_OK
                    ELSE NEXT_GROUP
            ELSE nakade_friends_loop(col, t, st, lib2, 0)

\* Lines 344-345: with friendly groups present the scan stops at next_group.
stop_at_next_group(st, col) == groupcts(st, col) # 0

RECURSIVE nakade_loop(_, _, _, _)
nakade_loop(col, t, st, i) ==
    IF i >= groupcts(st, stone_other(col)) THEN [d |-> -1, ok |-> TRUE]
    ELSE LET r == nakade_group(st.groupids[stone_other(col)][i + 1], col, t, st)
         IN IF r = NAKADE_OK THEN [d |-> 0, ok |-> TRUE]
            ELSE IF r = ASSERT_FAILED THEN [d |-> -1, ok |-> FALSE]
            ELSE IF stop_at_next_group(st, col) THEN [d |-> -1, ok |-> TRUE]
            ELSE nakade_loop(col, t, st, i + 1)

setup_nakade_or_snapback(col, t, st) == nakade_loop(col, t, st, 0)

(***************************************************************************)
(* check_throwin                                                           *)
(***************************************************************************)
\* Lines 359-362: the candidate is a false eye of the opponent, not a corner.
is_throwin_shape(col, t) ==
    /\ neighbor_count_at(t, S_OFFBOARD) < 2
    /\ neighbor_count_at(t, stone_other(col)) + neighbor_count_at(t, S_OFFBOARD) = 3
    /\ board_is_false_eyelike(t, stone_other(col))

\* Lines 369-377: an empty neighbour of the candidate is an escape path.
has_escape_path(col, t) ==
    \E c \in NeighborSet(t, board_size) :
        /\ board_at(c) = S_NONE
        /\ neighbor_count_at(c, stone_other(col))
           + neighbor_count_at(c, S_OFFBOARD) < 2

check_throwin(col, t, st) ==
    IF ~is_throwin_shape(col, t) THEN [d |-> -1, ok |-> TRUE]
    ELSE IF ~(groupcts(st, col) <= 1) THEN [d |-> -1, ok |-> FALSE]
    ELSE IF groupcts(st, col) = 0
    THEN [d |-> IF has_escape_path(col, t) THEN -1 ELSE 0, ok |-> TRUE]
    ELSE LET g == st.groupids[col][1]
         IN IF ~(libs_of(g) <= 2) THEN [d |-> -1, ok |-> FALSE]
            ELSE IF libs_of(g) = 1 THEN [d |-> 1, ok |-> TRUE]
            ELSE IF group_is_onestone(g) THEN [d |-> 0, ok |-> TRUE]
            ELSE [d |-> -1, ok |-> TRUE]

(***************************************************************************)
(* is_bad_selfatari_slow, is_bad_selfatari and selfatari_cousin            *)
(***************************************************************************)
\* Variant of DefaultVerdict returning "not bad".
DefaultVerdict_mut == FALSE

\* Line 459: no analyzer decided: this really is a bad self-atari.
DefaultVerdict == TRUE

\* The classifier as a function of the board, the colour, the candidate and
\* the order in which the candidate's neighbours are visited.
is_bad_selfatari_slow(col, t, ord) ==
    LET s0 == collect_groups(t, ord)
        f == examine_friendly_groups(col, t, s0)
        e == examine_enemy_groups(col, t, f.s)
        n == setup_nakade_or_snapback(col, t, f.s)
        w == check_throwin(col, t, f.s)
    IN IF f.d >= 0 THEN f.d = 1
       ELSE IF e >= 0 THEN e = 1
       ELSE IF n.d >= 0 THEN n.d = 1
       ELSE IF w.d >= 0 THEN w.d = 1
       ELSE DefaultVerdict

is_bad_selfatari(col, t) ==
    IF immediate_liberty_count(t) > 1 THEN FALSE
    ELSE is_bad_selfatari_slow(col, t, CodeOrder)

\* Lines 466-473: the friendly 2-liberty groups around coord, one entry per
\* neighbouring stone (a group touching coord twice is entered twice).
RECURSIVE cousin_groups_from(_, _, _)
cousin_groups_from(col, nbs, i) ==
    IF i > Len(nbs) THEN <<>>
    ELSE LET c == nbs[i]
             rest == cousin_groups_from(col, nbs, i + 1)
         IN IF board_at(c) = col /\ libs_of(group_at(c)) = 2
            THEN <<group_at(c)>> \o rest
            ELSE rest

cousin_groups(col, coord) ==
    cousin_groups_from(col, foreach_neighbor(coord, CodeOrder), 1)

\* Variant of selfatari_cousin with the test of the other liberty inverted.
selfatari_cousin_mut(col, coord, rnd) ==
    LET groups == cousin_groups(col, coord)
    IN IF Len(groups) = 0 THEN pass
       ELSE LET group == groups[rnd + 1]
                lib2 == board_group_other_lib(group, coord)
            IN IF ~is_bad_selfatari(col, lib2) THEN pass ELSE lib2

\* rnd is the value returned by fast_random(groups_n).
selfatari_cousin(col, coord, rnd) ==
    LET groups == cousin_groups(col, coord)
    IN IF Len(groups) = 0 THEN pass
       ELSE LET group == groups[rnd + 1]
                lib2 == board_group_other_lib(group, coord)
            IN IF is_bad_selfatari(col, lib2) THEN pass ELSE lib2

(***************************************************************************)
(* Inputs: every legal position with at most MaxStones stones on the small *)
(* boards, and larger positions in the style of the unit tests.            *)
(***************************************************************************)
XY(n, x, y) == coord_xy(x, y, n + 2)

SmallPositions ==
    UNION {UNION {{[n |-> n, black |-> B, white |-> S \ B] : B \in SUBSET S} :
                  S \in {T \in SUBSET InsideCoords(n + 2) : Cardinality(T) <= MaxStones}} :
           n \in BoardSizes}

\*   X . O O      Black to play at (2,2): one white group has the liberties
\*   X * O O      (2,1) and (2,2) only, the other has three liberties.
\*   O O X X
\*   . . . .
NakadePosition ==
    [n |-> 4,
     black |-> {XY(4, 1, 1), XY(4, 1, 2), XY(4, 3, 3), XY(4, 4, 3)},
     white |-> {XY(4, 3, 1), XY(4, 4, 1), XY(4, 3, 2), XY(4, 4, 2),
                XY(4, 1, 3), XY(4, 2, 3)}]

\*   . X *        Black to play at (3,1): the black group has the liberties
\*   X X .        (1,1), (3,1) and (3,2), and (1,1) is a one-point eye.
\*   O O .
EyePosition ==
    [n |-> 3,
     black |-> {XY(3, 2, 1), XY(3, 1, 2), XY(3, 2, 2)},
     white |-> {XY(3, 1, 3), XY(3, 2, 3)}]

\*   X X * X      Black to play at (3,1): the group on the left has the three
\*   . . X X      liberties (3,1), (1,2) and (2,2) and could be captured after
\*   . . . .      the move if it stood alone; the group on the right has four
\*   . . . .      liberties.
HealthyFriendPosition ==
    [n |-> 4,
     black |-> {XY(4, 1, 1), XY(4, 2, 1), XY(4, 4, 1), XY(4, 3, 2), XY(4, 4, 2)},
     white |-> {}]

\* HealthyFriendPosition with up to MaxExtra more stones of either colour.
HealthyFriendPositions ==
    LET base == HealthyFriendPosition
        free == InsideCoords(base.n + 2) \ base.black
    IN UNION {{[n |-> base.n, black |-> base.black \cup B, white |-> S \ B] :
                  B \in SUBSET S} :
              S \in {T \in SUBSET free : Cardinality(T) <= MaxExtra}}

TestPositions == {NakadePosition, EyePosition} \cup HealthyFriendPositions

Positions == SmallPositions \cup TestPositions

\* No group on the board is without liberties.
LegalBoard(bd) == \A g \in DOMAIN bd.gi : bd.gi[g].libs >= 1

Analyzers == <<"friendly", "enemy", "nakade", "throwin">>

\* A call is_bad_selfatari_slow(b, color, to) on an empty point with at most one
\* empty neighbour (is_bad_selfatari calls it only then).
Init ==
    /\ b \in {bd \in {MakeBoard(p, asc) : p \in Positions, asc \in BOOLEAN} :
                  LegalBoard(bd)}
    /\ color \in {S_BLACK, S_WHITE}
    /\ to \in {c \in InsideCoords(board_size) :
                  board_at(c) = S_NONE /\ immediate_liberty_count(c) <= 1}
    /\ s = EmptyState
    /\ pc = "collect"
    /\ d = -1
    /\ ran = <<>>
    /\ verdict = FALSE
    /\ assert_ok = TRUE
    /\ cousin = pass

(***************************************************************************)
(* is_bad_selfatari_slow step by step                                      *)
(***************************************************************************)
\* "d = analyzer(); if (d >= 0) return d;" for the analyzer called name, which
\* returned r; after the last analyzer the default verdict is returned.
Return(name, r, ok, next) ==
    /\ d' = r
    /\ ran' = Append(ran, [name |-> name, d |-> r])
    /\ assert_ok' = ok
    /\ IF ~ok THEN pc' = "aborted" /\ verdict' = verdict
       ELSE IF r >= 0 THEN pc' = "done" /\ verdict' = (r = 1)
       ELSE IF next = "default" THEN pc' = "done" /\ verdict' = DefaultVerdict
       ELSE pc' = next /\ verdict' = verdict

\* Lines 408-427: the neighbours are visited in some order.
Collect ==
    /\ pc = "collect"
    /\ s' \in {collect_groups(to, ord) : ord \in Perms}
    /\ assert_ok' = (groupcts(s', S_NONE) <= 1)
    /\ pc' = IF assert_ok' THEN "friendly" ELSE "aborted"
    /\ UNCHANGED <<b, color, to, d, ran, verdict, cousin>>

ExamineFriendly ==
    /\ pc = "friendly"
    /\ LET r == examine_friendly_groups(color, to, s)
       IN s' = r.s /\ Return("friendly", r.d, TRUE, "enemy")
    /\ UNCHANGED <<b, color, to, cousin>>

ExamineEnemy ==
    /\ pc = "enemy"
    /\ Return("enemy", examine_enemy_groups(color, to, s), TRUE, "nakade")
    /\ UNCHANGED <<b, color, to, s, cousin>>

SetupNakade ==
    /\ pc = "nakade"
    /\ LET r == setup_nakade_or_snapback(color, to, s)
       IN Return("nakade", r.d, r.ok, "throwin")
    /\ UNCHANGED <<b, color, to, s, cousin>>

CheckThrowin ==
    /\ pc = "throwin"
    /\ LET r == check_throwin(color, to, s)
       IN Return("throwin", r.d, r.ok, "default")
    /\ UNCHANGED <<b, color, to, s, cousin>>

\* selfatari_cousin(b, color, to); the function itself does not test how the
\* point was classified.
Cousin ==
    /\ pc = "done"
    /\ \E rnd \in 0 .. (IF Len(cousin_groups(color, to)) = 0 THEN 0
                         ELSE Len(cousin_groups(color, to)) - 1) :
           cousin' = selfatari_cousin(color, to, rnd)
    /\ pc' = "cousin_done"
    /\ UNCHANGED <<b, color, to, s, d, ran, verdict, assert_ok>>

Next ==
    \/ Collect
    \/ ExamineFriendly
    \/ ExamineEnemy
    \/ SetupNakade
    \/ CheckThrowin
    \/ Cousin

Spec == Init /\ [][Next]_vars

(***************************************************************************)
(* Properties                                                              *)
(***************************************************************************)
\* is_bad_selfatari_slow has returned (verdict holds its result).
Returned == pc \in {"done", "cousin_done"}

\* The analyzer at position i of the pipeline was evaluated, with result r.
Evaluated(i, r) == Len(ran) >= i /\ ran[i].d = r

FriendIds == {s.groupids[color][i] : i \in 1 .. groupcts(s, color)}

EnemyIds ==
    {s.groupids[stone_other(color)][i] : i \in 1 .. groupcts(s, stone_other(color))}

\* C1: the verdict is the same under every order in which the neighbours of
\* the candidate are visited: it equals the verdict under the order of the code.
C1_OrderIndependence ==
    Returned => verdict = is_bad_selfatari_slow(color, to, CodeOrder)

\* C2: a move onto a liberty of a friendly 3-liberty group one of whose two
\* other liberties is a one-point eye of the mover is not bad.
C2_EyeFillException ==
    (Returned /\ \E g \in FriendIds :
                    /\ libs_of(g) = 3
                    /\ \E i \in 0 .. 2 :
                           /\ group_lib(g, i) # to
                           /\ board_is_one_point_eye(group_lib(g, i), color))
    => verdict = FALSE

\* C9: when the nakade/snapback analyzer is reached and some enemy neighbouring
\* group is a validated nakade (two liberties, internal other liberty, friendly
\* groups sharing it), the analyzer says "not bad" wherever that group stands in
\* the enemy bucket.
C9_NakadeScanCoverage ==
    (Returned /\ Len(ran) >= 3
     /\ \E g \in EnemyIds : nakade_group(g, color, to, s) = NAKADE_OK)
    => (ran[3].d = 0 /\ verdict = FALSE)

\* The state of the friendly scan before the group at 0-based position j, when
\* the scan gets that far.
FriendlyScanBefore(j) ==
    friendly_loop(color, to,
                  [s EXCEPT !.friend_has_no_libs = FALSE, !.needs_more_lib = 0,
                            !.needs_more_lib_except = 0],
                  0, j)

\* The friendly scan meets, at position j, a 2-liberty group while a different
\* 2-liberty group is recorded as needs_more_lib with another other liberty.
ConflictingFriendAt(j) ==
    LET r == FriendlyScanBefore(j)
        g == s.groupids[color][j + 1]
    IN /\ r.d = -1
       /\ libs_of(g) = 2
       /\ r.s.needs_more_lib # 0
       /\ r.s.needs_more_lib # g
       /\ r.s.needs_more_lib_except # board_group_other_lib(g, to)

ConflictingFriends ==
    Returned /\ \E j \in 0 .. (groupcts(s, color) - 1) : ConflictingFriendAt(j)

\* C7 as stated: with two conflicting friendly 2-liberty groups the move is bad.
C7_ConflictIsBad == ConflictingFriends => verdict = TRUE

\* C7 as amended: with two conflicting friendly 2-liberty groups the friendly
\* analyzer returns "not bad", which is the verdict.
C7_ConflictIsNotBad ==
    ConflictingFriends => (Len(ran) = 1 /\ ran[1].d = 0 /\ verdict = FALSE)

\* C7: a state where the friendly scan met conflicting 2-liberty groups.
C7_Witness == ConflictingFriends /\ verdict = FALSE

\* The enemy neighbouring groups in atari.
EnemyInAtari == {g \in EnemyIds : libs_of(g) = 1}

KoStone(g) ==
    /\ group_is_onestone(g)
    /\ neighbor_count_at(g, color) + neighbor_count_at(g, S_OFFBOARD) = 3

\* No empty neighbour, friendly analyzer inconclusive with a friend in atari
\* and no needs_more_lib, and the only enemy group in atari is a ko stone.
SnapbackCase ==
    /\ Returned
    /\ groupcts(s, S_NONE) = 0
    /\ Evaluated(1, -1)
    /\ s.friend_has_no_libs
    /\ s.needs_more_lib = 0
    /\ Cardinality(EnemyInAtari) = 1
    /\ \A g \in EnemyInAtari : KoStone(g)

\* No empty neighbour, friendly analyzer inconclusive with no friend in atari
\* to save, and some enemy group in atari is a ko stone.
KoCaptureCase ==
    /\ Returned
    /\ groupcts(s, S_NONE) = 0
    /\ Evaluated(1, -1)
    /\ ~s.friend_has_no_libs
    /\ \E g \in EnemyInAtari : KoStone(g)

\* C3 as stated: in the snapback case the move is not bad.
C3_SnapbackNotBad == SnapbackCase => verdict = FALSE

\* C3 as amended: the ko stone decides "not bad" when no friendly group is in
\* atari; with a friendly group in atari the enemy analyzer is inconclusive and
\* the move is not bad only if the nakade/snapback analyzer says so.
C3_KoCapture ==
    /\ KoCaptureCase => (Len(ran) = 2 /\ ran[2].d = 0 /\ verdict = FALSE)
    /\ SnapbackCase => (/\ Evaluated(2, -1)
                        /\ (verdict = FALSE) <=> (Len(ran) = 3 /\ ran[3].d = 0))

\* C3: a state where a ko stone was taken with no friendly group in atari.
C3_Witness == KoCaptureCase /\ verdict = FALSE

\* The other liberties of the friendly 2-liberty groups around the point.
CousinLibs ==
    {board_group_other_lib(cousin_groups(color, to)[i], to) :
        i \in 1 .. Len(cousin_groups(color, to))}

GoodCousinLibs == {l \in CousinLibs : ~is_bad_selfatari(color, l)}

\* C4 as stated: when some friendly 2-liberty group has a not-bad other liberty,
\* selfatari_cousin returns such a liberty whatever the random choice.
C4_CousinFound ==
    (pc = "cousin_done" /\ GoodCousinLibs # {}) => cousin \in GoodCousinLibs

\* C4 as amended: the same for a point classified as a bad self-atari.
C4_CousinFoundForBad ==
    (pc = "cousin_done" /\ verdict /\ GoodCousinLibs # {})
    => cousin \in GoodCousinLibs

\* C4: a bad point for which selfatari_cousin suggested a liberty.
C4_Witness ==
    pc = "cousin_done" /\ verdict /\ GoodCousinLibs # {} /\ cousin # pass

\* C5: the analyzers are evaluated in the order friendly, enemy, nakade,
\* throw-in, none after a definitive result; the verdict is the first definitive
\* result, and "bad" when all four are inconclusive.
C5_PipelineOrder ==
    /\ Len(ran) <= 4
    /\ \A i \in 1 .. Len(ran) :
           /\ ran[i].name = Analyzers[i]
           /\ i < Len(ran) => ran[i].d = -1
    /\ Returned =>
           /\ Len(ran) >= 1
           /\ IF ran[Len(ran)].d >= 0 THEN verdict = (ran[Len(ran)].d = 1)
              ELSE Len(ran) = 4 /\ verdict = TRUE

\* C5: all four analyzers were inconclusive and the default was returned.
C5_Witness == Returned /\ Len(ran) = 4 /\ ran[4].d = -1 /\ verdict = TRUE

\* The neighbours of the candidate are only off-board points, enemy groups not
\* in atari and friendly groups in atari.
SurroundedCandidate ==
    \A c \in NeighborSet(to, board_size) :
        \/ board_at(c) = S_OFFBOARD
        \/ board_at(c) = stone_other(color) /\ libs_of(group_at(c)) > 1
        \/ board_at(c) = color /\ libs_of(group_at(c)) = 1

\* C6: friendly analyzer inconclusive, enemy scan finished with no capture
\* candidate, no needs_more_lib and no empty neighbour: the verdict is "bad" and
\* comes from the enemy analyzer.
C6_SimpleSuicide ==
    /\ (Returned /\ Evaluated(1, -1)
        /\ enemy_loop(color, to, s, 0, 0).scanned
        /\ enemy_loop(color, to, s, 0, 0).can_capture = 0
        /\ s.needs_more_lib = 0
        /\ groupcts(s, S_NONE) = 0)
       => (Len(ran) = 2 /\ verdict = TRUE)
    /\ (Returned /\ SurroundedCandidate) => (Len(ran) = 2 /\ verdict = TRUE)

\* C6: a surrounded candidate with friendly and enemy neighbours was
\* classified.
C6_Witness ==
    /\ Returned /\ SurroundedCandidate /\ verdict = TRUE
    /\ groupcts(s, color) >= 1
    /\ groupcts(s, stone_other(color)) >= 1

\* C8: a friendly neighbouring group with more than three liberties makes the
\* move not bad.
C8_HealthyFriend ==
    (Returned /\ \E g \in FriendIds : libs_of(g) > 3) => verdict = FALSE

\* C8: the healthy group was scanned after a three-liberty group that the
\* three-liberty check would have called capturable had it stood alone, so that
\* the test of line 60 decided.
C8_Witness ==
    /\ Returned /\ verdict = FALSE
    /\ groupcts(s, color) = 2
    /\ LET g == s.groupids[color][1]
       IN /\ libs_of(g) = 3
          /\ three_liberty_suicide(g, color, to,
                                   [s EXCEPT !.groupids[color] = <<g>>])
    /\ libs_of(s.groupids[color][2]) > 3

\* C10: when the nakade/snapback or the throw-in analyzer is reached, every
\* friendly neighbouring group has one or two liberties, and no assertion fails.
C10_AssertionsHold ==
    /\ assert_ok /\ pc # "aborted"
    /\ (pc \in {"nakade", "throwin"} \/ Len(ran) >= 3)
       => \A g \in FriendIds : libs_of(g) \in {1, 2}

\* C10: the throw-in analyzer has evaluated its assertion on a friendly group.
C10_Witness ==
    /\ Len(ran) = 4
    /\ is_throwin_shape(color, to)
    /\ groupcts(s, color) = 1

====
